---------------------------- MODULE Spec2Model ----------------------------
(***************************************************************************)
(* A model of app.py, the "City Flag Dashboard": a Streamlit script that   *)
(* loads a table of territory records, classifies every record            *)
(* (assign_flags), summarises the records by representative               *)
(* (summarize_by_rep), narrows them by the sidebar's inputs (filter_data), *)
(* finds the unassigned records far from every assigned one               *)
(* (find_available_cities, haversine) and draws a map (create_map).        *)
(*                                                                         *)
(* Conventions of the model                                                *)
(*  - A pandas cell is an option: None (NaN / NaT) or Some(v).             *)
(*  - A table (DataFrame) is a sequence of rows; a row is a record whose   *)
(*    fields are the columns.  "Rep Assigned" is RepAssigned and           *)
(*    "Date Assigned to Rep" is DateAssigned.                              *)
(*  - Text is a sequence of one-character strings.                         *)
(*  - Dates are whole days; today is the day datetime.today() falls in.    *)
(*  - Coordinates are whole arc-miles: the angle that spans one mile on    *)
(*    the sphere of radius 3958.8 miles (2764 arc-miles = 40.003 degrees). *)
(*    Trigonometric values are fixed-point and tabulated for the angles    *)
(*    the bounded inputs produce.                                          *)
(***************************************************************************)
EXTENDS Integers, Sequences, FiniteSets, TLC

VARIABLES
    loaded,            \* the table load_data returns
    today,             \* the day read by datetime.today()
    data,              \* the working table ("data" of main / the argument)
    selected_states,   \* sidebar: "Filter by State"
    search_query,      \* sidebar: "Search"
    min_population,    \* sidebar: "Minimum Population"
    filters,           \* the flags whose checkbox is ticked
    selected_rep,      \* st.session_state["selected_rep"]
    selected_flag,     \* st.session_state["selected_flag"]
    warning,           \* TRUE when st.warning was shown in the pass
    summary,           \* result of summarize_by_rep
    filtered_data,     \* result of filter_data
    available_cities,  \* result of find_available_cities
    markers,           \* the folium.Marker calls of create_map
    ran,               \* the computations that ran in the pass
    pc                 \* position of the script

vars == <<loaded, today, data, selected_states, search_query, min_population,
          filters, selected_rep, selected_flag, warning, summary,
          filtered_data, available_cities, markers, ran, pc>>

----------------------------------------------------------------------------
(* Bounds and program constants *)

MaxRecords == 2

RecentDays == 210

AgingDays == 270

ThresholdMiles == 7

DefaultMinPopulation == 10000

----------------------------------------------------------------------------
(* Cells, rows and tables *)

None == <<>>

Some(v) == <<v>>

notna(x) == x # None

isna(x) == x = None

RowGet(row, key, default) ==
    IF key \in DOMAIN row THEN row[key] ELSE default

Flags == {"Blue", "Orange", "Red", "Black", "Purple"}

SeqsUpTo(S, n) == UNION {[1..k -> S] : k \in 0..n}

----------------------------------------------------------------------------
(* assign_flags *)

DealsAreZero(deals) == deals # None /\ deals[1] = 0

FlagOf_StrictRecent(row, now) ==
    LET assigned_date == RowGet(row, "DateAssigned", None)
        deals         == RowGet(row, "Deals", Some(0))
        rep_assigned  == RowGet(row, "RepAssigned", None)
    IN  IF notna(assigned_date)
        THEN LET days_since_assigned == now - assigned_date[1]
             IN  IF days_since_assigned < RecentDays THEN "Blue"
                 ELSE IF RecentDays < days_since_assigned
                         /\ days_since_assigned <= AgingDays THEN "Orange"
                 ELSE IF days_since_assigned > AgingDays /\ DealsAreZero(deals)
                      THEN "Red"
                 ELSE "Black"
        ELSE IF notna(rep_assigned) THEN "Black"
        ELSE "Purple"

FlagOf_AgingAsStale(row, now) ==
    LET assigned_date == RowGet(row, "DateAssigned", None)
        deals         == RowGet(row, "Deals", Some(0))
        rep_assigned  == RowGet(row, "RepAssigned", None)
    IN  IF notna(assigned_date)
        THEN LET days_since_assigned == now - assigned_date[1]
             IN  IF days_since_assigned <= RecentDays THEN "Blue"
                 ELSE IF days_since_assigned > RecentDays /\ DealsAreZero(deals)
                      THEN "Red"
                 ELSE IF days_since_assigned <= AgingDays THEN "Orange"
                 ELSE "Black"
        ELSE IF notna(rep_assigned) THEN "Black"
        ELSE "Purple"

FlagOf(row, now) ==
    LET assigned_date == RowGet(row, "DateAssigned", None)
        deals         == RowGet(row, "Deals", Some(0))
        rep_assigned  == RowGet(row, "RepAssigned", None)
    IN  IF notna(assigned_date)
        THEN LET days_since_assigned == now - assigned_date[1]
             IN  IF days_since_assigned <= RecentDays THEN "Blue"
                 ELSE IF RecentDays < days_since_assigned
                         /\ days_since_assigned <= AgingDays THEN "Orange"
                 ELSE IF days_since_assigned > AgingDays /\ DealsAreZero(deals)
                      THEN "Red"
                 ELSE "Black"
        ELSE IF notna(rep_assigned) THEN "Black"
        ELSE "Purple"

assign_flags(rows, now) ==
    [i \in 1..Len(rows) |-> [Flag |-> FlagOf(rows[i], now)] @@ rows[i]]

----------------------------------------------------------------------------
(* Input universe of the classifier *)

Todays == {1000, 1001}

AssignedDates == {1001, 790, 789, 750, 730, 729}

Row(city, state, lat, lon, pop, rep, date, deals) ==
    [City |-> city, State |-> state, Latitude |-> lat, Longitude |-> lon,
     Population |-> pop, RepAssigned |-> rep, DateAssigned |-> date,
     Deals |-> deals]

RowNoDeals(city, state, lat, lon, pop, rep, date) ==
    [City |-> city, State |-> state, Latitude |-> lat, Longitude |-> lon,
     Population |-> pop, RepAssigned |-> rep, DateAssigned |-> date]

PA == <<"P", "A">>

NY == <<"N", "Y">>

ClassifyRows ==
    {Row(Some(<<"A">>), Some(PA), Some(2764), Some(2764), Some(20000), rep, date, deals) :
        rep \in {None, Some(<<"X">>)},
        date \in {None} \cup {Some(d) : d \in AssignedDates},
        deals \in {None, Some(0), Some(2)}}

ClassifyRowsNoDeals ==
    {RowNoDeals(Some(<<"A">>), Some(PA), Some(2764), Some(2764), Some(20000), rep, date) :
        rep \in {None, Some(<<"X">>)},
        date \in {None} \cup {Some(d) : d \in AssignedDates}}

ClassifyTables ==
    SeqsUpTo(ClassifyRows, MaxRecords) \cup SeqsUpTo(ClassifyRowsNoDeals, MaxRecords)

----------------------------------------------------------------------------
(* Steps *)

Idle ==
    /\ selected_states = {}
    /\ search_query = <<>>
    /\ min_population = DefaultMinPopulation
    /\ filters = Flags
    /\ selected_rep = None
    /\ selected_flag = None
    /\ warning = FALSE
    /\ summary = <<>>
    /\ filtered_data = <<>>
    /\ available_cities = <<>>
    /\ markers = <<>>
    /\ ran = {}

InitWith(tables, days) ==
    /\ loaded \in tables
    /\ today \in days
    /\ data = loaded
    /\ pc = "loaded"
    /\ Idle

AssignFlagsStep ==
    /\ pc = "loaded"
    /\ data' = assign_flags(data, today)
    /\ ran' = ran \cup {"assign_flags"}
    /\ pc' = "flagged"
    /\ UNCHANGED <<loaded, today, selected_states, search_query, min_population,
                   filters, selected_rep, selected_flag, warning, summary,
                   filtered_data, available_cities, markers>>

InitClassify == InitWith(ClassifyTables, Todays)

NextClassify == AssignFlagsStep

SpecClassify == InitClassify /\ [][NextClassify]_vars

----------------------------------------------------------------------------
(* Claims about assign_flags *)

Flagged == "assign_flags" \in ran

Age(row) == today - row.DateAssigned[1]

(* C1: assign_flags gives every record exactly one of the five categories, *)
(* chosen by the rules in order: with an assigned date, age <= 210 is      *)
(* Blue, 210 < age <= 270 is Orange, age > 270 with no deals is Red, age   *)
(* > 270 with deals is Black; without a date, a representative gives Black *)
(* and neither gives Purple.  No record is dropped: the output has the     *)
(* input's records, in order, each with its flag.                          *)
C1_ClassifierRules ==
    Flagged =>
        /\ Len(data) = Len(loaded)
        /\ \A i \in 1..Len(loaded) :
             LET r == loaded[i]
                 f == data[i].Flag
                 dealCount == RowGet(r, "Deals", Some(0))
             IN  /\ f \in Flags
                 /\ [k \in DOMAIN r |-> data[i][k]] = r
                 /\ notna(r.DateAssigned) /\ Age(r) <= 210 => f = "Blue"
                 /\ notna(r.DateAssigned) /\ Age(r) > 210 /\ Age(r) <= 270
                        => f = "Orange"
                 /\ notna(r.DateAssigned) /\ Age(r) > 270
                        /\ dealCount = Some(0) => f = "Red"
                 /\ notna(r.DateAssigned) /\ Age(r) > 270
                        /\ notna(dealCount) /\ dealCount[1] > 0 => f = "Black"
                 /\ isna(r.DateAssigned) /\ notna(r.RepAssigned) => f = "Black"
                 /\ isna(r.DateAssigned) /\ isna(r.RepAssigned) => f = "Purple"

C1_Witness ==
    /\ Flagged
    /\ Len(data) = 2
    /\ data[1].Flag = "Red"
    /\ data[2].Flag = "Purple"

IsScenarioB(r) ==
    /\ notna(r.RepAssigned)
    /\ r.DateAssigned = Some(today - 250)
    /\ RowGet(r, "Deals", Some(0)) = Some(0)

(* C5 as stated: a record with a representative, assigned exactly 250 days *)
(* ago, with no deals, is classified Assigned-Stale-NoDeals (Red).         *)
C5_ScenarioBIsStale ==
    Flagged => \A i \in 1..Len(data) : IsScenarioB(loaded[i]) => data[i].Flag = "Red"

(* C5 amended: a record with a representative, assigned exactly 250 days   *)
(* ago, with no deals, is classified Assigned-Aging (Orange).              *)
C5_ScenarioBIsAging ==
    Flagged => \A i \in 1..Len(data) : IsScenarioB(loaded[i]) => data[i].Flag = "Orange"

C5_Witness ==
    /\ Flagged
    /\ \E i \in 1..Len(data) : IsScenarioB(loaded[i]) /\ data[i].Flag = "Orange"

----------------------------------------------------------------------------
(* haversine *)

(* 10^9 * sin^2(d / (2 * 3958.8)) for d = 1, 2, ... arc-miles: the         *)
(* haversine of an angle of d arc-miles, to nine decimal places.           *)
HavTable ==
    <<16, 64, 144, 255, 399, 574, 782, 1021, 1292, 1595,
      1930, 2297, 2696, 3127, 3589, 4084, 4610, 5168, 5759, 6381>>

Hav(d) ==
    LET m == IF d < 0 THEN 0 - d ELSE d
    IN  IF m = 0 THEN 0 ELSE HavTable[m]

(* 10^4 * cos(lat / 3958.8) for the latitudes of the input universe. *)
Cos(lat) ==
    CASE lat = 2764 -> 7660
      [] lat = 2771 -> 7649
      [] lat = 2772 -> 7647
      [] lat = 2774 -> 7644

(* R * 2 * atan2(sqrt(a), sqrt(1 - a)) in miles, rounded up to a whole     *)
(* mile: the least m whose haversine is at least a.  Rounding up leaves    *)
(* every comparison "distance <= whole miles" as it is.                    *)
MilesOf(a) ==
    CHOOSE m \in 0..Len(HavTable) :
        /\ a <= Hav(m)
        /\ \A k \in 0..(m - 1) : a > Hav(k)

GreatCircle(lat1, lat2, dlat, dlon) ==
    LET a == Hav(dlat) + (((Cos(lat1) * Cos(lat2)) \div 10000) * Hav(dlon)) \div 10000
    IN  MilesOf(a)

haversine(lat1, lon1, lat2, lon2) ==
    IF isna(lat1) \/ isna(lon1) \/ isna(lat2)
    THEN None
    ELSE LET dlat == lat2[1] - lat1[1]
             dlon == lat2[1] - lon1[1]
         IN  Some(GreatCircle(lat1[1], lat2[1], dlat, dlon))

----------------------------------------------------------------------------
(* find_available_cities *)

WithinThreshold(distance) == notna(distance) /\ distance[1] <= ThresholdMiles

too_close(unassigned_row, assigned) ==
    \E j \in 1..Len(assigned) :
        WithinThreshold(haversine(unassigned_row.Latitude, unassigned_row.Longitude,
                                  assigned[j].Latitude, assigned[j].Longitude))

find_available_cities(rows) ==
    LET IsAssigned(r)   == notna(r.RepAssigned)
        IsUnassigned(r) == isna(r.RepAssigned)
        assigned   == SelectSeq(rows, IsAssigned)
        unassigned == SelectSeq(rows, IsUnassigned)
        Far(r)     == ~too_close(r, assigned)
    IN  SelectSeq(unassigned, Far)

FindAvailableStep ==
    /\ pc = "flagged"
    /\ available_cities' = find_available_cities(data)
    /\ ran' = ran \cup {"find_available_cities"}
    /\ pc' = "done"
    /\ UNCHANGED <<loaded, today, data, selected_states, search_query,
                   min_population, filters, selected_rep, selected_flag, warning,
                   summary, filtered_data, markers>>

----------------------------------------------------------------------------
(* Input universe of the proximity filter *)

Latitudes == {2764, 2771, 2772}

Longitudes == {2764, 2771, 2774}

ProximityRows ==
    {Row(Some(<<"A">>), Some(PA), lat, lon, Some(20000), rep, date, Some(0)) :
        lat \in {None} \cup {Some(x) : x \in Latitudes},
        lon \in {None} \cup {Some(x) : x \in Longitudes},
        rep \in {None, Some(<<"X">>)},
        date \in {None, Some(790)}}

InitProximity == InitWith(SeqsUpTo(ProximityRows, MaxRecords), {1000})

NextProximity == AssignFlagsStep \/ FindAvailableStep

SpecProximity == InitProximity /\ [][NextProximity]_vars

----------------------------------------------------------------------------
(* Claims about the proximity filter *)

Found == "find_available_cities" \in ran

HasCoordinates(r) == notna(r.Latitude) /\ notna(r.Longitude)

InTable(r, rows) == \E k \in 1..Len(rows) : rows[k] = r

(* The great-circle distance of two rows that have coordinates, with both  *)
(* deltas taken from the coordinate they belong to.                        *)
Distance(r1, r2) ==
    GreatCircle(r1.Latitude[1], r2.Latitude[1],
                r2.Latitude[1] - r1.Latitude[1],
                r2.Longitude[1] - r1.Longitude[1])

(* C2: a record without a representative is in the result of               *)
(* find_available_cities if and only if its distance to every record with *)
(* a representative is strictly greater than 7 miles (so a record exactly  *)
(* 7 miles from an assigned one is out, and with no assigned record every  *)
(* unassigned record is in).  Stated for the tables in which every record  *)
(* has both coordinates.                                                   *)
C2_AvailableIffFartherThanThreshold ==
    Found /\ (\A k \in 1..Len(data) : HasCoordinates(data[k])) =>
        \A i \in 1..Len(data) :
            isna(data[i].RepAssigned) =>
                (InTable(data[i], available_cities)
                   <=> \A j \in 1..Len(data) :
                         notna(data[j].RepAssigned)
                            => Distance(data[i], data[j]) > ThresholdMiles)

(* C3: the distance the filter uses takes its longitude delta from the two *)
(* longitudes and its latitude delta from the two latitudes; so two        *)
(* records at the same coordinates are at distance 0, and an unassigned    *)
(* record at the coordinates of an assigned one is never available.        *)
C3_DistanceUsesTrueDeltas ==
    Found =>
        \A i, j \in 1..Len(data) :
            HasCoordinates(data[i]) /\ HasCoordinates(data[j]) =>
                /\ haversine(data[i].Latitude, data[i].Longitude,
                             data[j].Latitude, data[j].Longitude)
                     = Some(Distance(data[i], data[j]))
                /\ (/\ data[i].Latitude = data[j].Latitude
                    /\ data[i].Longitude = data[j].Longitude
                    /\ isna(data[i].RepAssigned)
                    /\ notna(data[j].RepAssigned))
                      => ~InTable(data[i], available_cities)

(* C4: records with a missing latitude or longitude take part in neither   *)
(* partition: an unassigned record with a missing coordinate is never in   *)
(* the result, and an assigned record with a missing coordinate never      *)
(* disqualifies an unassigned record.                                      *)
C4_MissingCoordinatesExcluded ==
    Found =>
        /\ \A k \in 1..Len(available_cities) : HasCoordinates(available_cities[k])
        /\ \A i \in 1..Len(data) :
             (/\ isna(data[i].RepAssigned)
              /\ HasCoordinates(data[i])
              /\ ~InTable(data[i], available_cities))
                => \E j \in 1..Len(data) :
                     /\ notna(data[j].RepAssigned)
                     /\ HasCoordinates(data[j])
                     /\ WithinThreshold(haversine(data[i].Latitude, data[i].Longitude,
                                                  data[j].Latitude, data[j].Longitude))

(* C10: after assign_flags and find_available_cities every record of the   *)
(* available set has the category Available (Purple).                      *)
C10_AvailableArePurple ==
    Flagged /\ Found =>
        \A k \in 1..Len(available_cities) : available_cities[k].Flag = "Purple"

----------------------------------------------------------------------------
(* summarize_by_rep *)

SummaryColumns == {"Blue", "Orange", "Red", "Black"}

RECURSIVE value_counts(_, _, _)
value_counts(rows, rep, flag) ==
    IF rows = <<>> THEN 0
    ELSE (IF Head(rows).RepAssigned = Some(rep) /\ Head(rows).Flag = flag THEN 1 ELSE 0)
         + value_counts(Tail(rows), rep, flag)

(* groupby('Rep Assigned')['Flag'].value_counts().unstack(fill_value=0):   *)
(* one row per representative of the table (a missing key is dropped),    *)
(* one column per flag that occurs among those rows.                       *)
unstack(rows) ==
    LET grouped == {i \in 1..Len(rows) : notna(rows[i].RepAssigned)}
        reps    == {rows[i].RepAssigned[1] : i \in grouped}
        columns == {rows[i].Flag : i \in grouped}
    IN  [rep \in reps |-> [flag \in columns |-> value_counts(rows, rep, flag)]]

reindex_Skipped(table, columns, fill_value) == table

reindex(table, columns, fill_value) ==
    [rep \in DOMAIN table |->
        [c \in columns |-> IF c \in DOMAIN table[rep] THEN table[rep][c] ELSE fill_value]]

RECURSIVE SumOver(_, _)
SumOver(f, keys) ==
    IF keys = {} THEN 0
    ELSE LET k == CHOOSE x \in keys : TRUE
         IN  f[k] + SumOver(f, keys \ {k})

row_sum(counts) == SumOver(counts, DOMAIN counts)

summarize_by_rep(rows) ==
    LET table == reindex(unstack(rows), SummaryColumns, 0)
    IN  [rep \in DOMAIN table |-> [Total |-> row_sum(table[rep])] @@ table[rep]]

SummarizeStep ==
    /\ pc = "flagged"
    /\ summary' = summarize_by_rep(data)
    /\ ran' = ran \cup {"summarize_by_rep"}
    /\ pc' = "done"
    /\ UNCHANGED <<loaded, today, data, selected_states, search_query,
                   min_population, filters, selected_rep, selected_flag, warning,
                   filtered_data, available_cities, markers>>

SummaryRows ==
    {Row(Some(<<"A">>), Some(PA), Some(2764), Some(2764), Some(20000), rep, date, deals) :
        rep \in {None, Some(<<"X">>), Some(<<"Y">>)},
        date \in {None, Some(790), Some(750), Some(729)},
        deals \in {Some(0), Some(2)}}

InitSummary == InitWith(SeqsUpTo(SummaryRows, MaxRecords), {1000})

NextSummary == AssignFlagsStep \/ SummarizeStep

SpecSummary == InitSummary /\ [][NextSummary]_vars

----------------------------------------------------------------------------
(* Claims about summarize_by_rep *)

Summarized == "summarize_by_rep" \in ran

RowsOf(rep, flag) ==
    {i \in 1..Len(data) : data[i].RepAssigned = Some(rep) /\ data[i].Flag = flag}

(* C8: summarize_by_rep gives one row per representative that occurs in    *)
(* the input, each with the four columns Blue, Orange, Red and Black (0    *)
(* when the representative has no record of the category) and a Total that *)
(* is the sum of the four; records without a representative are in no row. *)
C8_SummaryRows ==
    Summarized =>
        /\ DOMAIN summary =
             {data[i].RepAssigned[1] : i \in {k \in 1..Len(data) : notna(data[k].RepAssigned)}}
        /\ \A rep \in DOMAIN summary :
             /\ DOMAIN summary[rep] = {"Blue", "Orange", "Red", "Black", "Total"}
             /\ \A c \in {"Blue", "Orange", "Red", "Black"} :
                    summary[rep][c] = Cardinality(RowsOf(rep, c))
             /\ summary[rep].Total = summary[rep].Blue + summary[rep].Orange
                                       + summary[rep].Red + summary[rep].Black
             /\ summary[rep].Total =
                    Cardinality({i \in 1..Len(data) : data[i].RepAssigned = Some(rep)})

C8_Witness ==
    /\ Summarized
    /\ Len(data) = 2
    /\ isna(data[1].RepAssigned)
    /\ \E rep \in DOMAIN summary :
          summary[rep].Total = 1 /\ summary[rep].Black = 1 /\ summary[rep].Blue = 0

----------------------------------------------------------------------------
(* filter_data *)

lower(c) ==
    CASE c = "A" -> "a"
      [] c = "B" -> "b"
      [] c = "N" -> "n"
      [] c = "P" -> "p"
      [] c = "X" -> "x"
      [] c = "Y" -> "y"
      [] OTHER -> c

(* str.contains(pat, case=False) for a pattern of letters: the pattern     *)
(* occurs somewhere in the text, letter case aside.                        *)
contains(text, pat) ==
    \E i \in 1..(Len(text) - Len(pat) + 1) :
        \A k \in 1..Len(pat) : lower(text[i + k - 1]) = lower(pat[k])

(* Series.str.contains(pat, case=False, na=False): a missing cell is no    *)
(* match.                                                                  *)
str_contains(cell, pat) == notna(cell) /\ contains(cell[1], pat)

(* Series.astype(str): a missing cell becomes the text "nan". *)
astype_str(cell) == IF isna(cell) THEN Some(<<"n", "a", "n">>) ELSE cell

isin(cell, values) == notna(cell) /\ cell[1] \in values

(* Series >= number: a missing cell compares False. *)
ge(cell, number) == notna(cell) /\ cell[1] >= number

(* Python truth of a session-state entry, which is None or the name of a   *)
(* representative or of a flag.                                            *)
truthy(x) == notna(x)

filter_data(rows, states, query, rep, flag, min_pop) ==
    LET InRegion(r) == isin(r.State, states) /\ ge(r.Population, min_pop)
        Matches(r)  == \/ str_contains(r.City, query)
                       \/ str_contains(r.State, query)
                       \/ str_contains(astype_str(r.RepAssigned), query)
        IsRep(r)    == r.RepAssigned = rep
        IsFlag(r)   == Some(r.Flag) = flag
        step1 == SelectSeq(rows, InRegion)
        step2 == IF query # <<>> THEN SelectSeq(step1, Matches) ELSE step1
        step3 == IF truthy(rep) THEN SelectSeq(step2, IsRep) ELSE step2
        step4 == IF truthy(flag) THEN SelectSeq(step3, IsFlag) ELSE step3
    IN  step4

Queries == {<<>>, <<"a", "n">>, <<"p", "a">>, <<"x">>}

MinPopulations == {0, 10000}

FilterStep ==
    /\ pc = "flagged"
    /\ \E states \in SUBSET {PA, NY}, query \in Queries, min_pop \in MinPopulations,
          rep \in {None, Some(<<"X">>)}, flag \in {None, Some("Black")} :
          /\ selected_states' = states
          /\ search_query' = query
          /\ min_population' = min_pop
          /\ selected_rep' = rep
          /\ selected_flag' = flag
          /\ filtered_data' =
                filter_data(data, states, query, rep, flag, min_pop)
    /\ ran' = ran \cup {"filter_data"}
    /\ pc' = "done"
    /\ UNCHANGED <<loaded, today, data, filters, warning, summary,
                   available_cities, markers>>

FilterRows ==
    {Row(city, Some(state), Some(2764), Some(2764), pop, rep, None, Some(0)) :
        city \in {None, Some(<<"A", "n", "n">>)},
        state \in {PA, NY},
        pop \in {None, Some(0), Some(20000)},
        rep \in {None, Some(<<"X">>)}}

InitFilter == InitWith(SeqsUpTo(FilterRows, MaxRecords), {1000})

NextFilter == AssignFlagsStep \/ FilterStep

SpecFilter == InitFilter /\ [][NextFilter]_vars

----------------------------------------------------------------------------
(* Claims about filter_data *)

Filtered == "filter_data" \in ran

(* C6: with a non-empty search text, a record whose representative is      *)
(* absent is kept by the search step only if its city or its state         *)
(* contains the search text, letter case aside; the absent representative  *)
(* never counts as a match.                                                *)
C6_AbsentRepNeverMatches ==
    Filtered /\ search_query # <<>> =>
        \A k \in 1..Len(filtered_data) :
            isna(filtered_data[k].RepAssigned) =>
                \/ notna(filtered_data[k].City)
                     /\ contains(filtered_data[k].City[1], search_query)
                \/ notna(filtered_data[k].State)
                     /\ contains(filtered_data[k].State[1], search_query)

(* C7: a record whose population is absent passes the population floor     *)
(* when minPopulation is 0 and fails it when minPopulation is positive; a  *)
(* record with a population passes exactly when population >=              *)
(* minPopulation.  Read off the result of a call in which the region holds *)
(* the record's state and no other filter is set.                          *)
C7_PopulationFloor ==
    Filtered /\ search_query = <<>> /\ isna(selected_rep) /\ isna(selected_flag) =>
        \A i \in 1..Len(data) :
            isin(data[i].State, selected_states) =>
                (InTable(data[i], filtered_data)
                   <=> IF isna(data[i].Population)
                       THEN min_population = 0
                       ELSE data[i].Population[1] >= min_population)

----------------------------------------------------------------------------
(* create_map *)

color_mapping(flag) ==
    CASE flag = "Blue"   -> "blue"
      [] flag = "Orange" -> "orange"
      [] flag = "Red"    -> "red"
      [] flag = "Black"  -> "black"
      [] flag = "Purple" -> "purple"
      [] OTHER           -> "gray"

(* The folium.Marker calls, in order: one per row of the table that has    *)
(* both coordinates and a ticked flag, then, when Purple is ticked, one    *)
(* per available city.                                                     *)
create_map(rows, available, ticked) ==
    LET Clean(r)  == notna(r.Latitude) /\ notna(r.Longitude)
        Shown(r)  == RowGet(r, "Flag", "Purple") \in ticked
        clean_data == SelectSeq(rows, Clean)
        shown      == SelectSeq(clean_data, Shown)
        RowMarker(r) == [location |-> <<r.Latitude, r.Longitude>>,
                         color |-> color_mapping(RowGet(r, "Flag", "Purple")),
                         popup |-> "City"]
        AvailableMarker(r) == [location |-> <<r.Latitude, r.Longitude>>,
                               color |-> "purple",
                               popup |-> "Available City"]
    IN  [k \in 1..Len(shown) |-> RowMarker(shown[k])]
        \o (IF "Purple" \in ticked
            THEN [k \in 1..Len(available) |-> AvailableMarker(available[k])]
            ELSE <<>>)

----------------------------------------------------------------------------
(* main: one run of the script, which Streamlit starts on every change of  *)
(* a sidebar input *)

NoRegion_Never(states) == FALSE

NoRegion(states) == states = {}

StateOptions(rows) ==
    {rows[i].State[1] : i \in {k \in 1..Len(rows) : notna(rows[k].State)}}

FilterChoices == {Flags, Flags \ {"Purple"}}

(* The sidebar is read and the selection of regions is empty: the warning  *)
(* is shown and the run returns.                                           *)
MainWarning ==
    /\ pc = "script"
    /\ \E now \in {today, today + 1} \cap Todays :
          /\ today' = now
          /\ data' = assign_flags(loaded, now)
    /\ \E states \in SUBSET StateOptions(data'), query \in Queries,
          min_pop \in MinPopulations, ticked \in FilterChoices :
          /\ NoRegion(states)
          /\ selected_states' = states
          /\ search_query' = query
          /\ min_population' = min_pop
          /\ filters' = ticked
    /\ warning' = TRUE
    /\ ran' = {"assign_flags"}
    /\ summary' = <<>>
    /\ filtered_data' = <<>>
    /\ available_cities' = <<>>
    /\ markers' = <<>>
    /\ UNCHANGED <<loaded, selected_rep, selected_flag, pc>>

(* The sidebar is read and a region is selected: the run goes on to the    *)
(* summary, the filter, the proximity filter and the map.                  *)
MainRun ==
    /\ pc = "script"
    /\ \E now \in {today, today + 1} \cap Todays :
          /\ today' = now
          /\ data' = assign_flags(loaded, now)
    /\ \E states \in SUBSET StateOptions(data'), query \in Queries,
          min_pop \in MinPopulations, ticked \in FilterChoices :
          /\ ~NoRegion(states)
          /\ selected_states' = states
          /\ search_query' = query
          /\ min_population' = min_pop
          /\ filters' = ticked
    /\ warning' = FALSE
    /\ LET InStates(r) == isin(r.State, selected_states')
       IN  summary' = summarize_by_rep(SelectSeq(data', InStates))
    /\ filtered_data' = filter_data(data', selected_states', search_query',
                                    selected_rep, selected_flag, min_population')
    /\ available_cities' = find_available_cities(filtered_data')
    /\ markers' = create_map(filtered_data', available_cities', filters')
    /\ ran' = {"assign_flags", "summarize_by_rep", "filter_data",
               "find_available_cities", "create_map"}
    /\ UNCHANGED <<loaded, selected_rep, selected_flag, pc>>

MainRows ==
    { Row(Some(<<"A", "n", "n">>), Some(PA), Some(2764), Some(2774), Some(20000),
          Some(<<"X">>), Some(790), Some(2)),
      Row(Some(<<"B">>), Some(PA), Some(2764), Some(2774), Some(20000),
          None, None, Some(0)),
      Row(Some(<<"B">>), Some(NY), Some(2771), Some(2764), None,
          None, Some(750), Some(0)),
      Row(None, Some(NY), None, Some(2771), Some(0),
          Some(<<"Y">>), Some(729), Some(0)),
      Row(Some(<<"A">>), None, Some(2772), Some(2771), Some(20000),
          Some(<<"Y">>), None, Some(0)) }

Init ==
    /\ loaded \in SeqsUpTo(MainRows, MaxRecords)
    /\ today \in Todays
    /\ data = loaded
    /\ pc = "script"
    /\ Idle

Next == MainWarning \/ MainRun

Spec == Init /\ [][Next]_vars

----------------------------------------------------------------------------
(* Claims about main *)

Downstream == {"summarize_by_rep", "filter_data", "find_available_cities", "create_map"}

(* C9 as stated: in a run where the region selection is empty the warning  *)
(* is shown and no computation proceeds: no classification, summary, query *)
(* filtering, proximity filtering or map construction runs; these run only *)
(* in a run where a region is selected.                                    *)
C9_NothingRunsWithoutRegion ==
    /\ warning => ran = {}
    /\ ran # {} => selected_states # {}

(* C9 amended: in a run where the region selection is empty the warning is *)
(* shown and no summary, query filtering, proximity filtering or map       *)
(* construction runs; these run only in a run where a region is selected.  *)
(* The classification runs in every run, before the selection is looked    *)
(* at.                                                                     *)
C9_OnlyClassificationRunsWithoutRegion ==
    /\ ran # {} => "assign_flags" \in ran
    /\ ran # {} /\ selected_states = {} => warning /\ ran \cap Downstream = {}
    /\ warning => selected_states = {} /\ ran = {"assign_flags"}
    /\ warning => summary = <<>> /\ filtered_data = <<>>
                    /\ available_cities = <<>> /\ markers = <<>>
    /\ ran \cap Downstream # {} => selected_states # {} /\ ~warning

C9_Witness ==
    /\ warning
    /\ selected_states = {}
    /\ ran = {"assign_flags"}
    /\ Len(data) = 2
    /\ "Flag" \in DOMAIN data[1]

=============================================================================
